---- MODULE Spec2Model ----
(***************************************************************************)
(* Model of the logtor dispatcher (src/logtor.go): the registry of log     *)
(* creators (sinks), the active creator, the fallback ("default") creator  *)
(* and the global log level, together with the severity model of           *)
(* src/types/types.go.                                                     *)
(*                                                                         *)
(* A log creator is an object; its name is what LogName() returns.  Two    *)
(* distinct objects may carry the same name.  IsReady() and the result of  *)
(* a write belong to the creator (an external collaborator), so each call  *)
(* draws them from BOOLEAN.  A Go panic ends the program: crashed is       *)
(* absorbing.  rlock counts the read locks of changeMutex that are held,   *)
(* wlock tells whether its write lock is held.                             *)
(*                                                                         *)
(* In Spec the caller is sequential: every method and every HTTP handler   *)
(* runs to its end before the next call starts; last holds the call that   *)
(* has just ended until the caller takes its result.  In SpecConc several  *)
(* goroutines call the methods at the same time, one lock operation or     *)
(* field access per step.                                                  *)
(***************************************************************************)
EXTENDS Integers, Sequences, FiniteSets, TLC

VARIABLES logCreatorList, logLevel, currentLogCreator, defaultCreator, rlock,
          crashed, last, wlock, pc, loc

vars == <<logCreatorList, logLevel, currentLogCreator, defaultCreator, rlock,
          crashed, last, wlock, pc, loc>>

\* The state of the goroutines that SpecConc runs side by side.
concVars == <<wlock, pc, loc>>

----------------------------------------------------------------------------
(* Bounds *)

MaxSinks == 3
MaxBatch == 2
MaxDepth == 1
MaxReadLocks == 2
MaxProcs == 2

----------------------------------------------------------------------------
(* Severity model: src/types/types.go *)

NONE == "NONE"
FATAL == "FATAL"
ERROR == "ERROR"
WARN == "WARN"
DEBUG == "DEBUG"
INFO == "INFO"
TRACE == "TRACE"

LogLevelList == <<NONE, FATAL, ERROR, WARN, DEBUG, INFO, TRACE>>

DefinedLevels == {LogLevelList[i] : i \in 1..Len(LogLevelList)}

\* A LogLevel is a string: any text can be converted to one.
InvalidLevel == "VERBOSE"

LevelInputs == DefinedLevels \cup {InvalidLevel}

\* A plausible slip: the DEBUG case forgets WARN.
IsLogLevelAcceptable_DropsWarn(selected, using) ==
    CASE selected = FATAL -> using = FATAL
      [] selected = ERROR -> using = FATAL \/ using = ERROR
      [] selected = WARN  -> using = FATAL \/ using = ERROR \/ using = WARN
      [] selected = DEBUG -> using = FATAL \/ using = ERROR \/ using = DEBUG
      [] selected = INFO  -> using = FATAL \/ using = ERROR \/ using = WARN
                             \/ using = DEBUG \/ using = INFO
      [] selected = TRACE -> using = FATAL \/ using = ERROR \/ using = WARN
                             \/ using = DEBUG \/ using = INFO \/ using = TRACE
      [] OTHER -> FALSE

\* A plausible slip: the ERROR case forgets FATAL.
IsLogLevelAcceptable_ErrorForgetsFatal(selected, using) ==
    CASE selected = FATAL -> using = FATAL
      [] selected = ERROR -> using = ERROR
      [] selected = WARN  -> using = FATAL \/ using = ERROR \/ using = WARN
      [] selected = DEBUG -> using = FATAL \/ using = ERROR \/ using = WARN
                             \/ using = DEBUG
      [] selected = INFO  -> using = FATAL \/ using = ERROR \/ using = WARN
                             \/ using = DEBUG \/ using = INFO
      [] selected = TRACE -> using = FATAL \/ using = ERROR \/ using = WARN
                             \/ using = DEBUG \/ using = INFO \/ using = TRACE
      [] OTHER -> FALSE

\* A plausible slip: the TRACE case accepts whatever level it is given.
IsLogLevelAcceptable_TraceAcceptsAny(selected, using) ==
    CASE selected = FATAL -> using = FATAL
      [] selected = ERROR -> using = FATAL \/ using = ERROR
      [] selected = WARN  -> using = FATAL \/ using = ERROR \/ using = WARN
      [] selected = DEBUG -> using = FATAL \/ using = ERROR \/ using = WARN
                             \/ using = DEBUG
      [] selected = INFO  -> using = FATAL \/ using = ERROR \/ using = WARN
                             \/ using = DEBUG \/ using = INFO
      [] selected = TRACE -> TRUE
      [] OTHER -> FALSE

\* types.IsLogLevelAcceptable(selected, using): the switch on selected.
IsLogLevelAcceptable(selected, using) ==
    CASE selected = FATAL -> using = FATAL
      [] selected = ERROR -> using = FATAL \/ using = ERROR
      [] selected = WARN  -> using = FATAL \/ using = ERROR \/ using = WARN
      [] selected = DEBUG -> using = FATAL \/ using = ERROR \/ using = WARN
                             \/ using = DEBUG
      [] selected = INFO  -> using = FATAL \/ using = ERROR \/ using = WARN
                             \/ using = DEBUG \/ using = INFO
      [] selected = TRACE -> using = FATAL \/ using = ERROR \/ using = WARN
                             \/ using = DEBUG \/ using = INFO \/ using = TRACE
      [] OTHER -> FALSE

\* The method form l.IsLogLevelAcceptable(using) that Logtor.LogIt calls; its
\* body is not among the sources, the specification has one accepts rule.
LogLevel_IsLogLevelAcceptable(l, using) == IsLogLevelAcceptable(l, using)

\* LogLevel.IsValid(): body not among the sources; specified as membership
\* in the seven defined constants.
IsValid(l) == l \in DefinedLevels

----------------------------------------------------------------------------
(* Log creators *)

\* creators.Console, creators.File
NameList == <<"Console", "File">>

Names == {NameList[i] : i \in 1..Len(NameList)}

UnknownName == "nonexistent"

NameInputs == Names \cup {UnknownName}

Sinks == 1..MaxSinks

\* the nil interface value
Nil == 0

\* a non-nil interface value that wraps a nil pointer
TypedNil == -1

\* LogName() of a creator; creators 1 and Len(NameList)+1 share a name.
LogName(s) == NameList[((s - 1) % Len(NameList)) + 1]

Depths == 0..MaxDepth

BatchArgs == Sinks \cup {Nil, TypedNil}

Batches == UNION {[1..n -> BatchArgs] : n \in 0..MaxBatch}

----------------------------------------------------------------------------
(* Record of the most recent call, kept for stating properties *)

NoCall ==
    [op |-> "New", level |-> NONE, depth |-> 0, name |-> "", batch |-> <<>>,
     panic |-> FALSE, ret |-> FALSE, acc |-> FALSE, ready |-> <<>>,
     writes |-> <<>>, shut |-> {}, blocked |-> FALSE,
     status |-> 0, old |-> "", current |-> "", names |-> {}, levels |-> <<>>,
     method |-> "", body |-> "", creator |-> Nil]

LogOps == {"LogIt", "LogItWithCallDepth"}

\* Goroutines that call the registry at the same time, and what one of them
\* keeps between two steps of a call: its arguments and its loop index; of a
\* LogIt call also the thresholds in force during the call (seen), the
\* answers of IsReady() (ready), the creator asked last (asked), the creator
\* written to (wrote) and the branch taken (out); of an iteration over
\* logCreatorList the keys it found when it began (names) and the keys whose
\* creator Shutdown has shut down (shut).
Procs == 1..MaxProcs

NoLocal ==
    [name |-> "", batch |-> <<>>, i |-> 0, level |-> NONE,
     seen |-> {}, ready |-> <<>>, asked |-> Nil, wrote |-> Nil, out |-> "",
     names |-> {}, shut |-> {}]

\* The caller is sequential: it makes a call when the program has not
\* panicked and the previous call has returned (a call blocked on the mutex
\* never returns).
CanCall == ~crashed /\ ~last.blocked /\ last.op \in {"New", "idle"}

----------------------------------------------------------------------------
(* New(): src/logtor.go *)

\* A New() that starts with the most verbose threshold.
Init_ThresholdTrace ==
    /\ logCreatorList = [n \in {} |-> Nil]
    /\ logLevel = TRACE
    /\ currentLogCreator = Nil
    /\ defaultCreator = Nil
    /\ rlock = 0
    /\ crashed = FALSE
    /\ last = NoCall
    /\ wlock = FALSE
    /\ pc = [p \in Procs |-> "idle"]
    /\ loc = [p \in Procs |-> NoLocal]

Init ==
    /\ logCreatorList = [n \in {} |-> Nil]
    /\ logLevel = NONE
    /\ currentLogCreator = Nil
    /\ defaultCreator = Nil
    /\ rlock = 0
    /\ crashed = FALSE
    /\ last = NoCall
    /\ wlock = FALSE
    /\ pc = [p \in Procs |-> "idle"]
    /\ loc = [p \in Procs |-> NoLocal]

\* A WithDefaultCreator that makes the creator the active one as well.
WithDefaultCreator_SelectsCreator(creator) ==
    /\ CanCall
    /\ defaultCreator' = creator
    /\ currentLogCreator' = creator
    /\ last' = [NoCall EXCEPT !.op = "WithDefaultCreator"]
    /\ UNCHANGED <<logCreatorList, logLevel, rlock, crashed>>
    /\ UNCHANGED concVars

\* WithDefaultCreator(creator)
WithDefaultCreator(creator) ==
    /\ CanCall
    /\ defaultCreator' = creator
    /\ last' = [NoCall EXCEPT !.op = "WithDefaultCreator"]
    /\ UNCHANGED <<logCreatorList, logLevel, currentLogCreator, rlock, crashed>>
    /\ UNCHANGED concVars

\* A SetLogLevel that stores the level without asking IsValid.
SetLogLevel_Unchecked(lv) ==
    /\ CanCall
    /\ logLevel' = lv
    /\ last' = [NoCall EXCEPT !.op = "SetLogLevel", !.level = lv, !.ret = TRUE]
    /\ UNCHANGED <<logCreatorList, currentLogCreator, defaultCreator, rlock, crashed>>
    /\ UNCHANGED concVars

\* SetLogLevel(logLevel)
SetLogLevel(lv) ==
    /\ CanCall
    /\ IF IsValid(lv)
         THEN /\ logLevel' = lv
              /\ last' = [NoCall EXCEPT !.op = "SetLogLevel", !.level = lv, !.ret = TRUE]
         ELSE /\ logLevel' = logLevel
              /\ last' = [NoCall EXCEPT !.op = "SetLogLevel", !.level = lv, !.ret = FALSE]
    /\ UNCHANGED <<logCreatorList, currentLogCreator, defaultCreator, rlock, crashed>>
    /\ UNCHANGED concVars

\* LogLevel(): the call returns l.logLevel
LogLevel ==
    /\ CanCall
    /\ last' = [NoCall EXCEPT !.op = "LogLevel", !.level = logLevel]
    /\ UNCHANGED <<logCreatorList, logLevel, currentLogCreator, defaultCreator, rlock, crashed>>
    /\ UNCHANGED concVars

\* LogCreator(): the call returns l.currentLogCreator
LogCreator ==
    /\ CanCall
    /\ last' = [NoCall EXCEPT !.op = "LogCreator", !.creator = currentLogCreator]
    /\ UNCHANGED <<logCreatorList, logLevel, currentLogCreator, defaultCreator, rlock, crashed>>
    /\ UNCHANGED concVars

\* A ChangeLogCreator that assigns the result of the lookup without testing
\* that the name is present.
ChangeLogCreatorResult_AssignsOnMiss(list, cur, logCreatorName) ==
    IF logCreatorName \notin DOMAIN list
      THEN [ok |-> FALSE, cur |-> Nil]
      ELSE [ok |-> TRUE, cur |-> list[logCreatorName]]

\* ChangeLogCreator(logCreatorName): the lookup and the assignment, as the
\* pair <<return value, currentLogCreator afterwards>>.
ChangeLogCreatorResult(list, cur, logCreatorName) ==
    IF logCreatorName \notin DOMAIN list
      THEN [ok |-> FALSE, cur |-> cur]
      ELSE [ok |-> TRUE, cur |-> list[logCreatorName]]

ChangeLogCreator(logCreatorName) ==
    /\ CanCall
    /\ LET r == ChangeLogCreatorResult(logCreatorList, currentLogCreator, logCreatorName)
       IN /\ currentLogCreator' = r.cur
          /\ last' = [NoCall EXCEPT !.op = "ChangeLogCreator",
                                    !.name = logCreatorName, !.ret = r.ok]
    /\ UNCHANGED <<logCreatorList, logLevel, defaultCreator, rlock, crashed>>
    /\ UNCHANGED concVars

\* A map store that keeps the value of a key that is already present.
MapPut_KeepsExisting(list, k, v) ==
    [n \in DOMAIN list \cup {k} |-> IF n \in DOMAIN list THEN list[n] ELSE v]

\* list[k] = v of a Go map
MapPut(list, k, v) ==
    [n \in DOMAIN list \cup {k} |-> IF n = k THEN v ELSE list[n]]

\* The loop of AddLogCreators from position i on: nil and typed-nil entries
\* are skipped, every other creator is stored under its name.
RECURSIVE AddAll(_, _, _)
AddAll(list, logCreators, i) ==
    IF i > Len(logCreators)
      THEN list
      ELSE IF logCreators[i] # Nil /\ logCreators[i] # TypedNil
             THEN AddAll(MapPut(list, LogName(logCreators[i]), logCreators[i]),
                         logCreators, i + 1)
             ELSE AddAll(list, logCreators, i + 1)

\* A plausible slip: the first creator of the batch is made active without
\* testing whether one is active already.
AddLogCreatorsResult_AlwaysSelects(list, cur, logCreators) ==
    LET newList == AddAll(list, logCreators, 1)
    IN IF Len(logCreators) = 0
         THEN [list |-> newList, cur |-> cur, panic |-> TRUE]
         ELSE IF logCreators[1] = Nil \/ logCreators[1] = TypedNil
                THEN [list |-> newList, cur |-> cur, panic |-> TRUE]
                ELSE [list |-> newList,
                      cur |-> ChangeLogCreatorResult(newList, cur,
                                                     LogName(logCreators[1])).cur,
                      panic |-> FALSE]

\* AddLogCreators(logCreators...): the loop, then (after the unlock) the
\* selection of logCreators[0] by name when no creator is active.  Indexing
\* an empty batch and calling LogName() on a nil first entry panic.
AddLogCreatorsResult(list, cur, logCreators) ==
    LET newList == AddAll(list, logCreators, 1)
    IN IF cur # Nil
         THEN [list |-> newList, cur |-> cur, panic |-> FALSE]
         ELSE IF Len(logCreators) = 0
                THEN [list |-> newList, cur |-> cur, panic |-> TRUE]
                ELSE IF logCreators[1] = Nil \/ logCreators[1] = TypedNil
                       THEN [list |-> newList, cur |-> cur, panic |-> TRUE]
                       ELSE [list |-> newList,
                             cur |-> ChangeLogCreatorResult(newList, cur,
                                                            LogName(logCreators[1])).cur,
                             panic |-> FALSE]

\* changeMutex.Lock() waits until no read lock is held: with a read lock
\* that is never released the call does not return.
AddLogCreators(logCreators) ==
    /\ CanCall
    /\ IF rlock > 0
         THEN /\ last' = [NoCall EXCEPT !.op = "AddLogCreators", !.batch = logCreators,
                                        !.blocked = TRUE]
              /\ UNCHANGED <<logCreatorList, currentLogCreator, crashed>>
         ELSE LET r == AddLogCreatorsResult(logCreatorList, currentLogCreator, logCreators)
              IN /\ logCreatorList' = r.list
                 /\ currentLogCreator' = r.cur
                 /\ crashed' = r.panic
                 /\ last' = [NoCall EXCEPT !.op = "AddLogCreators",
                                           !.batch = logCreators, !.panic = r.panic]
    /\ UNCHANGED <<logLevel, defaultCreator, rlock>>
    /\ UNCHANGED concVars

\* A plausible slip: the fallback branch forgets to test the level again.
LogItTarget_FallbackUnfiltered(thr, cur, def, rdy1, rdy2, level) ==
    IF LogLevel_IsLogLevelAcceptable(thr, level) /\ cur = Nil
      THEN "panic"
      ELSE IF LogLevel_IsLogLevelAcceptable(thr, level) /\ rdy1
             THEN "active"
             ELSE IF cur # Nil /\ ~rdy2 /\ def # Nil
                    THEN "default"
                    ELSE "none"

\* A plausible slip: a configured fallback is preferred to a ready creator.
LogItTarget_PrefersDefault(thr, cur, def, rdy1, rdy2, level) ==
    IF LogLevel_IsLogLevelAcceptable(thr, level) /\ cur = Nil
      THEN "panic"
      ELSE IF LogLevel_IsLogLevelAcceptable(thr, level) /\ def # Nil
             THEN "default"
             ELSE IF LogLevel_IsLogLevelAcceptable(thr, level) /\ rdy1
                    THEN "active"
                    ELSE "none"

\* A plausible slip: the first branch forgets the readiness test.
LogItTarget_IgnoresReady(thr, cur, def, rdy1, rdy2, level) ==
    IF LogLevel_IsLogLevelAcceptable(thr, level) /\ cur = Nil
      THEN "panic"
      ELSE IF LogLevel_IsLogLevelAcceptable(thr, level)
             THEN "active"
             ELSE "none"

\* The branch Logtor.LogIt takes: "active" (write to currentLogCreator),
\* "default" (write to defaultCreator), "none" (return false), or "panic"
\* (IsReady() called on a nil currentLogCreator).  && evaluates left to
\* right and stops at the first false operand.  rdy1 is the answer of
\* IsReady() in the if condition, rdy2 its answer in the else-if condition.
LogItTarget(thr, cur, def, rdy1, rdy2, level) ==
    IF LogLevel_IsLogLevelAcceptable(thr, level) /\ cur = Nil
      THEN "panic"
      ELSE IF LogLevel_IsLogLevelAcceptable(thr, level) /\ rdy1
             THEN "active"
             ELSE IF LogLevel_IsLogLevelAcceptable(thr, level) /\ ~rdy2 /\ def # Nil
                    THEN "default"
                    ELSE "none"

\* The answers IsReady() of currentLogCreator gives during Logtor.LogIt, in
\* the order of the calls.
LogItAsked(thr, cur, rdy1, rdy2, level) ==
    IF ~LogLevel_IsLogLevelAcceptable(thr, level) \/ cur = Nil
      THEN <<>>
      ELSE IF rdy1 THEN <<rdy1>> ELSE <<rdy1, rdy2>>

\* A plausible slip: a creator that is not ready is written to all the same.
LogItWithCallDepthTarget_IgnoresReady(thr, cur, def, rdy1, rdy2, level) ==
    IF IsLogLevelAcceptable(thr, level) /\ cur = Nil
      THEN "panic"
      ELSE IF IsLogLevelAcceptable(thr, level)
             THEN "active"
             ELSE "none"

\* A LogItWithCallDepth without the else-if branch to the default creator.
LogItWithCallDepthTarget_NoFallback(thr, cur, def, rdy1, rdy2, level) ==
    IF IsLogLevelAcceptable(thr, level) /\ cur = Nil
      THEN "panic"
      ELSE IF IsLogLevelAcceptable(thr, level) /\ rdy1
             THEN "active"
             ELSE "none"

\* The branch Logtor.LogItWithCallDepth takes; its first test calls
\* types.IsLogLevelAcceptable(l.LogLevel(), level).
LogItWithCallDepthTarget(thr, cur, def, rdy1, rdy2, level) ==
    IF IsLogLevelAcceptable(thr, level) /\ cur = Nil
      THEN "panic"
      ELSE IF IsLogLevelAcceptable(thr, level) /\ rdy1
             THEN "active"
             ELSE IF LogLevel_IsLogLevelAcceptable(thr, level) /\ cur = Nil
                    THEN "panic"
                    ELSE IF LogLevel_IsLogLevelAcceptable(thr, level) /\ ~rdy2 /\ def # Nil
                           THEN "default"
                           ELSE "none"

\* The answers IsReady() of currentLogCreator gives during
\* Logtor.LogItWithCallDepth, in the order of the calls.
LogItWithCallDepthAsked(thr, cur, rdy1, rdy2, level) ==
    IF cur = Nil
      THEN <<>>
      ELSE IF IsLogLevelAcceptable(thr, level) /\ rdy1
             THEN <<rdy1>>
             ELSE (IF IsLogLevelAcceptable(thr, level) THEN <<rdy1>> ELSE <<>>)
                  \o (IF LogLevel_IsLogLevelAcceptable(thr, level) THEN <<rdy2>> ELSE <<>>)

\* A dispatch that writes to a creator looked up in the mapping by the name
\* of the active one, instead of to the active creator itself.
TargetSink_ByName(t, cur, def) ==
    IF t = "active"
      THEN IF cur # Nil /\ LogName(cur) \in DOMAIN logCreatorList
             THEN logCreatorList[LogName(cur)]
             ELSE cur
      ELSE IF t = "default" THEN def ELSE Nil

\* The creator a branch writes to.
TargetSink(t, cur, def) ==
    IF t = "active" THEN cur ELSE IF t = "default" THEN def ELSE Nil

\* A dispatch that, after the write to the active creator, also writes to
\* the default creator.
Dispatched_FanOut(op, t, level, depth, asked, w, acc) ==
    LET wr(s, via) == [sink |-> s, via |-> via, method |-> op, level |-> level,
                       depth |-> depth, result |-> w]
    IN [NoCall EXCEPT !.op = op, !.level = level, !.depth = depth, !.acc = acc,
                      !.ready = asked, !.panic = (t = "panic"),
                      !.ret = (t \in {"active", "default"} /\ w),
                      !.writes = IF t = "active" /\ defaultCreator # Nil
                                   THEN <<wr(currentLogCreator, "active"),
                                          wr(defaultCreator, "default")>>
                                   ELSE IF t \in {"active", "default"}
                                          THEN <<wr(TargetSink(t, currentLogCreator,
                                                               defaultCreator), t)>>
                                          ELSE <<>>]

\* What a log call leaves behind: asked are the answers IsReady() of the
\* active creator gave during the call, w the result of the creator's write.
Dispatched(op, t, level, depth, asked, w, acc) ==
    [NoCall EXCEPT !.op = op, !.level = level, !.depth = depth, !.acc = acc,
                   !.ready = asked, !.panic = (t = "panic"),
                   !.ret = (t \in {"active", "default"} /\ w),
                   !.writes = IF t \in {"active", "default"}
                                THEN <<[sink |-> TargetSink(t, currentLogCreator, defaultCreator),
                                        via |-> t, method |-> op, level |-> level,
                                        depth |-> depth, result |-> w]>>
                                ELSE <<>>]

\* LogIt(level, logMessage)
LogIt(level) ==
    /\ CanCall
    /\ \E rdy1 \in BOOLEAN, rdy2 \in BOOLEAN, w \in BOOLEAN :
         LET t == LogItTarget(logLevel, currentLogCreator, defaultCreator,
                              rdy1, rdy2, level)
             asked == LogItAsked(logLevel, currentLogCreator, rdy1, rdy2, level)
         IN /\ crashed' = (t = "panic")
            /\ last' = Dispatched("LogIt", t, level, 0, asked, w,
                                  LogLevel_IsLogLevelAcceptable(logLevel, level))
    /\ UNCHANGED <<logCreatorList, logLevel, currentLogCreator, defaultCreator, rlock>>
    /\ UNCHANGED concVars

\* LogItWithCallDepth(level, callDepth, logMessage)
LogItWithCallDepth(level, callDepth) ==
    /\ CanCall
    /\ \E rdy1 \in BOOLEAN, rdy2 \in BOOLEAN, w \in BOOLEAN :
         LET t == LogItWithCallDepthTarget(logLevel, currentLogCreator, defaultCreator,
                                           rdy1, rdy2, level)
             asked == LogItWithCallDepthAsked(logLevel, currentLogCreator,
                                              rdy1, rdy2, level)
         IN /\ crashed' = (t = "panic")
            /\ last' = Dispatched("LogItWithCallDepth", t, level, callDepth, asked, w,
                                  IsLogLevelAcceptable(logLevel, level))
    /\ UNCHANGED <<logCreatorList, logLevel, currentLogCreator, defaultCreator, rlock>>
    /\ UNCHANGED concVars

\* A Shutdown that shuts down the active creator only.
Shutdown_ActiveOnly ==
    /\ CanCall
    /\ last' = [NoCall EXCEPT !.op = "Shutdown", !.shut = {currentLogCreator} \ {Nil}]
    /\ UNCHANGED <<logCreatorList, logLevel, currentLogCreator, defaultCreator, rlock, crashed>>
    /\ UNCHANGED concVars

\* Shutdown(): Shutdown() of every creator in logCreatorList.
Shutdown ==
    /\ CanCall
    /\ last' = [NoCall EXCEPT !.op = "Shutdown",
                              !.shut = {logCreatorList[n] : n \in DOMAIN logCreatorList}]
    /\ UNCHANGED <<logCreatorList, logLevel, currentLogCreator, defaultCreator, rlock, crashed>>
    /\ UNCHANGED concVars

----------------------------------------------------------------------------
(* Control surface: the HTTP handlers of handler.go *)

Methods == {"GET", "POST"}

StatusOK == 200
StatusBadRequest == 400
StatusNotFound == 404

\* Request bodies of ChangeActiveLogCreator: one that does not decode into a
\* map of strings, the empty object, an object without the key "log_creator",
\* and an object that carries a name under "log_creator".
ChangePayloads ==
    {[kind |-> k, v |-> ""] : k \in {"undecodable", "empty", "other"}}
      \cup {[kind |-> "log_creator", v |-> n] : n \in NameInputs}

\* Request bodies of SetLogLevelHandlerFunc: the read fails, or it yields a
\* text, which may be a level name, any other text, or nothing.
LevelPayloads ==
    {[err |-> TRUE, text |-> ""]}
      \cup {[err |-> FALSE, text |-> t] : t \in LevelInputs \cup {""}}

Responded(op, status) == [NoCall EXCEPT !.op = op, !.status = status]

\* What the body of a request to set the level is: unreadable, or a text.
BodyKind(payload) == IF payload.err THEN "unreadable" ELSE "text"

\* The answer to a request that has a method and a body.
Requested(op, status, method, body) ==
    [Responded(op, status) EXCEPT !.method = method, !.body = body]

\* A GetLogCreatorList that lists the active creator only.
GetLogCreatorList_ActiveOnly ==
    /\ CanCall
    /\ last' = [Responded("GetLogCreatorList", StatusOK)
                  EXCEPT !.names = IF currentLogCreator = Nil
                                     THEN {}
                                     ELSE {LogName(currentLogCreator)}]
    /\ UNCHANGED <<logCreatorList, logLevel, currentLogCreator, defaultCreator, rlock, crashed>>
    /\ UNCHANGED concVars

\* GetLogCreatorList(w, r)
GetLogCreatorList ==
    /\ CanCall
    /\ last' = [Responded("GetLogCreatorList", StatusOK)
                  EXCEPT !.names = DOMAIN logCreatorList]
    /\ UNCHANGED <<logCreatorList, logLevel, currentLogCreator, defaultCreator, rlock, crashed>>
    /\ UNCHANGED concVars

\* A GetCurrentLogCreator without the test for an empty logCreatorList.
GetCurrentLogCreator_NoNotFound ==
    /\ CanCall
    /\ IF currentLogCreator = Nil
         THEN /\ last' = [Responded("GetCurrentLogCreator", StatusOK)
                            EXCEPT !.current = ""]
              /\ crashed' = FALSE
         ELSE /\ last' = [Responded("GetCurrentLogCreator", StatusOK)
                            EXCEPT !.current = LogName(currentLogCreator)]
              /\ crashed' = FALSE
    /\ UNCHANGED <<logCreatorList, logLevel, currentLogCreator, defaultCreator, rlock>>
    /\ UNCHANGED concVars

\* GetCurrentLogCreator(w, r)
GetCurrentLogCreator ==
    /\ CanCall
    /\ IF DOMAIN logCreatorList = {}
         THEN /\ last' = Responded("GetCurrentLogCreator", StatusNotFound)
              /\ crashed' = FALSE
         ELSE IF currentLogCreator = Nil
                THEN /\ last' = [NoCall EXCEPT !.op = "GetCurrentLogCreator",
                                               !.panic = TRUE]
                     /\ crashed' = TRUE
                ELSE /\ last' = [Responded("GetCurrentLogCreator", StatusOK)
                                   EXCEPT !.current = LogName(currentLogCreator)]
                     /\ crashed' = FALSE
    /\ UNCHANGED <<logCreatorList, logLevel, currentLogCreator, defaultCreator, rlock>>
    /\ UNCHANGED concVars

\* A ChangeActiveLogCreator that does not look at the method of the request.
ChangeActiveLogCreator_AnyMethod(method, payload) ==
    /\ CanCall
    /\ IF DOMAIN logCreatorList = {}
         THEN /\ last' = Requested("ChangeActiveLogCreator", StatusNotFound, method, payload.kind)
              /\ UNCHANGED <<currentLogCreator, crashed>>
         ELSE IF payload.kind \in {"undecodable", "empty"}
                THEN /\ last' = Requested("ChangeActiveLogCreator", StatusBadRequest, method, payload.kind)
                     /\ UNCHANGED <<currentLogCreator, crashed>>
         ELSE IF currentLogCreator = Nil
                THEN /\ last' = [NoCall EXCEPT !.op = "ChangeActiveLogCreator",
                                               !.panic = TRUE]
                     /\ crashed' = TRUE
                     /\ UNCHANGED currentLogCreator
         ELSE LET oldLogCreator == LogName(currentLogCreator)
                  r == ChangeLogCreatorResult(logCreatorList, currentLogCreator, payload.v)
              IN IF payload.kind = "log_creator"
                   THEN /\ currentLogCreator' = r.cur
                        /\ crashed' = FALSE
                        /\ last' = [Requested("ChangeActiveLogCreator", StatusOK, method, payload.kind)
                                      EXCEPT !.name = payload.v, !.ret = r.ok,
                                             !.old = oldLogCreator,
                                             !.current = IF r.ok THEN payload.v
                                                                 ELSE oldLogCreator]
                   ELSE /\ last' = [Requested("ChangeActiveLogCreator", StatusOK, method, payload.kind)
                                      EXCEPT !.old = oldLogCreator, !.current = ""]
                        /\ UNCHANGED <<currentLogCreator, crashed>>
    /\ UNCHANGED <<logCreatorList, logLevel, defaultCreator, rlock>>
    /\ UNCHANGED concVars

\* ChangeActiveLogCreator(w, r)
ChangeActiveLogCreator(method, payload) ==
    /\ CanCall
    /\ IF DOMAIN logCreatorList = {}
         THEN /\ last' = Requested("ChangeActiveLogCreator", StatusNotFound, method, payload.kind)
              /\ UNCHANGED <<currentLogCreator, crashed>>
         ELSE IF method # "POST" \/ payload.kind \in {"undecodable", "empty"}
                THEN /\ last' = Requested("ChangeActiveLogCreator", StatusBadRequest, method, payload.kind)
                     /\ UNCHANGED <<currentLogCreator, crashed>>
         ELSE IF currentLogCreator = Nil
                THEN /\ last' = [NoCall EXCEPT !.op = "ChangeActiveLogCreator",
                                               !.panic = TRUE]
                     /\ crashed' = TRUE
                     /\ UNCHANGED currentLogCreator
         ELSE LET oldLogCreator == LogName(currentLogCreator)
                  r == ChangeLogCreatorResult(logCreatorList, currentLogCreator, payload.v)
              IN IF payload.kind = "log_creator"
                   THEN /\ currentLogCreator' = r.cur
                        /\ crashed' = FALSE
                        /\ last' = [Requested("ChangeActiveLogCreator", StatusOK, method, payload.kind)
                                      EXCEPT !.name = payload.v, !.ret = r.ok,
                                             !.old = oldLogCreator,
                                             !.current = IF r.ok THEN payload.v
                                                                 ELSE oldLogCreator]
                   ELSE /\ last' = [Requested("ChangeActiveLogCreator", StatusOK, method, payload.kind)
                                      EXCEPT !.old = oldLogCreator, !.current = ""]
                        /\ UNCHANGED <<currentLogCreator, crashed>>
    /\ UNCHANGED <<logCreatorList, logLevel, defaultCreator, rlock>>
    /\ UNCHANGED concVars

\* GetLogLevelList(w, r)
GetLogLevelList ==
    /\ CanCall
    /\ last' = [Responded("GetLogLevelList", StatusOK) EXCEPT !.levels = LogLevelList]
    /\ UNCHANGED <<logCreatorList, logLevel, currentLogCreator, defaultCreator, rlock, crashed>>
    /\ UNCHANGED concVars

\* GetActiveLogLevel(w, r)
GetActiveLogLevel ==
    /\ CanCall
    /\ IF DOMAIN logCreatorList = {}
         THEN last' = Responded("GetActiveLogLevel", StatusNotFound)
         ELSE last' = [Responded("GetActiveLogLevel", StatusOK)
                         EXCEPT !.current = logLevel]
    /\ UNCHANGED <<logCreatorList, logLevel, currentLogCreator, defaultCreator, rlock, crashed>>
    /\ UNCHANGED concVars

\* A SetLogLevelHandlerFunc that stores the text of the request as the level
\* without going through SetLogLevel.
SetLogLevelHandlerFunc_Unchecked(method, payload) ==
    /\ CanCall
    /\ IF DOMAIN logCreatorList = {}
         THEN /\ rlock < MaxReadLocks
              /\ rlock' = rlock + 1
              /\ last' = Requested("SetLogLevelHandlerFunc", StatusNotFound, method, BodyKind(payload))
              /\ UNCHANGED logLevel
         ELSE IF method # "POST" \/ payload.err
                THEN /\ last' = Requested("SetLogLevelHandlerFunc", StatusBadRequest, method, BodyKind(payload))
                     /\ UNCHANGED <<logLevel, rlock>>
                ELSE /\ logLevel' = payload.text
                     /\ last' = [Requested("SetLogLevelHandlerFunc", StatusOK, method, BodyKind(payload))
                                   EXCEPT !.level = payload.text, !.ret = TRUE,
                                          !.old = logLevel, !.current = payload.text]
                     /\ UNCHANGED rlock
    /\ UNCHANGED <<logCreatorList, currentLogCreator, defaultCreator, crashed>>
    /\ UNCHANGED concVars

\* A SetLogLevelHandlerFunc that reports the text of the request as the
\* current level whether SetLogLevel took it or not.
SetLogLevelHandlerFunc_ReportsRequested(method, payload) ==
    /\ CanCall
    /\ IF DOMAIN logCreatorList = {}
         THEN /\ rlock < MaxReadLocks
              /\ rlock' = rlock + 1
              /\ last' = Requested("SetLogLevelHandlerFunc", StatusNotFound, method, BodyKind(payload))
              /\ UNCHANGED logLevel
         ELSE IF method # "POST" \/ payload.err
                THEN /\ last' = Requested("SetLogLevelHandlerFunc", StatusBadRequest, method, BodyKind(payload))
                     /\ UNCHANGED <<logLevel, rlock>>
                ELSE /\ logLevel' = IF IsValid(payload.text) THEN payload.text ELSE logLevel
                     /\ last' = [Requested("SetLogLevelHandlerFunc", StatusOK, method, BodyKind(payload))
                                   EXCEPT !.level = payload.text,
                                          !.ret = IsValid(payload.text),
                                          !.old = logLevel, !.current = payload.text]
                     /\ UNCHANGED rlock
    /\ UNCHANGED <<logCreatorList, currentLogCreator, defaultCreator, crashed>>
    /\ UNCHANGED concVars

\* SetLogLevelHandlerFunc(w, r): the early return on an empty logCreatorList
\* keeps the read lock.
SetLogLevelHandlerFunc(method, payload) ==
    /\ CanCall
    /\ IF DOMAIN logCreatorList = {}
         THEN /\ rlock < MaxReadLocks
              /\ rlock' = rlock + 1
              /\ last' = Requested("SetLogLevelHandlerFunc", StatusNotFound, method, BodyKind(payload))
              /\ UNCHANGED logLevel
         ELSE IF method # "POST" \/ payload.err
                THEN /\ last' = Requested("SetLogLevelHandlerFunc", StatusBadRequest, method, BodyKind(payload))
                     /\ UNCHANGED <<logLevel, rlock>>
         ELSE IF IsValid(payload.text)
                THEN /\ logLevel' = payload.text
                     /\ last' = [Requested("SetLogLevelHandlerFunc", StatusOK, method, BodyKind(payload))
                                   EXCEPT !.level = payload.text, !.ret = TRUE,
                                          !.old = logLevel, !.current = payload.text]
                     /\ UNCHANGED rlock
                ELSE /\ last' = [Requested("SetLogLevelHandlerFunc", StatusOK, method, BodyKind(payload))
                                   EXCEPT !.level = payload.text, !.ret = FALSE,
                                          !.old = logLevel, !.current = logLevel]
                     /\ UNCHANGED <<logLevel, rlock>>
    /\ UNCHANGED <<logCreatorList, currentLogCreator, defaultCreator, crashed>>
    /\ UNCHANGED concVars

----------------------------------------------------------------------------
\* The caller takes the result of the call that has just ended.
Return ==
    /\ ~crashed
    /\ ~last.blocked
    /\ last.op \notin {"New", "idle"}
    /\ last' = [NoCall EXCEPT !.op = "idle"]
    /\ UNCHANGED <<logCreatorList, logLevel, currentLogCreator, defaultCreator, rlock, crashed>>
    /\ UNCHANGED concVars

Next ==
    \/ \E c \in Sinks \cup {Nil} : WithDefaultCreator(c)
    \/ \E lv \in LevelInputs : SetLogLevel(lv)
    \/ LogLevel
    \/ \E n \in NameInputs : ChangeLogCreator(n)
    \/ LogCreator
    \/ \E b \in Batches : AddLogCreators(b)
    \/ \E lv \in LevelInputs : LogIt(lv)
    \/ \E lv \in LevelInputs, d \in Depths : LogItWithCallDepth(lv, d)
    \/ Shutdown
    \/ GetLogCreatorList
    \/ GetCurrentLogCreator
    \/ \E m \in Methods, p \in ChangePayloads : ChangeActiveLogCreator(m, p)
    \/ GetLogLevelList
    \/ GetActiveLogLevel
    \/ \E m \in Methods, p \in LevelPayloads : SetLogLevelHandlerFunc(m, p)
    \/ Return

Spec == Init /\ [][Next]_vars

----------------------------------------------------------------------------
(* Goroutines calling the registry at the same time.  A call is a sequence *)
(* of steps, one per lock operation and per access to a field of Logtor;   *)
(* pc[p] is the step goroutine p takes next.                               *)

\* Batches, levels and default creators the goroutines use.
ConcBatches == {<<1>>, <<2>>, <<1, 2>>}

ConcThresholds == {FATAL, INFO, TRACE, InvalidLevel}

ConcLogLevels == {ERROR}

ConcDefaults == {Nil, 2}

\* New().WithDefaultCreator(creator), or New() alone
InitConc ==
    /\ logCreatorList = [n \in {} |-> Nil]
    /\ logLevel = NONE
    /\ currentLogCreator = Nil
    /\ defaultCreator \in ConcDefaults
    /\ rlock = 0
    /\ crashed = FALSE
    /\ last = NoCall
    /\ wlock = FALSE
    /\ pc = [p \in Procs |-> "idle"]
    /\ loc = [p \in Procs |-> NoLocal]

At(p, label) == ~crashed /\ pc[p] = label

Goto(p, label) == pc' = [pc EXCEPT ![p] = label]

Done(p) == pc' = [pc EXCEPT ![p] = "idle"] /\ loc' = [loc EXCEPT ![p] = NoLocal]

\* A read of l.logLevel that is not ordered with the stores of SetLogLevel.
\* A Go string is a pointer and a length, stored and loaded as two words:
\* while a store is under way the read yields the old text, the new text,
\* or, when the two differ in length, the pointer of one with the length
\* of the other, which is not the name of a level.
TornLevel == "?"

Storing(q) == pc[q] = "SetStoreLen"

Mixed(a, b) == IF Len(a) = Len(b) THEN {a, b} ELSE {a, b, TornLevel}

LevelReads ==
    {logLevel} \cup UNION {Mixed(logLevel, loc[q].level) : q \in {r \in Procs : Storing(r)}}

\* The goroutines inside LogIt, and the thresholds in force at the moment:
\* the stored one and those being stored.
InLogIt(p) ==
    pc[p] \in {"LogAccept", "LogReady", "LogWrite", "LogAccept2", "LogReady2",
               "LogDefault", "LogReturn"}

InForce == {logLevel} \cup {loc[q].level : q \in {r \in Procs : Storing(r)}}

\* loc after thresholds ts came into force: every LogIt call under way has
\* seen them.
Seen(locals, ts) ==
    [r \in Procs |-> IF InLogIt(r)
                       THEN [locals[r] EXCEPT !.seen = @ \cup ts]
                       ELSE locals[r]]

\* Goroutine p, which is in no call, makes one.
Call(p, label, locals) ==
    /\ Goto(p, label)
    /\ loc' = [loc EXCEPT ![p] = locals]
    /\ UNCHANGED <<logCreatorList, logLevel, currentLogCreator, defaultCreator, rlock,
                   crashed, last, wlock>>

CallChangeLogCreator(p, logCreatorName) ==
    /\ At(p, "idle")
    /\ Call(p, "ChangeRLock", [NoLocal EXCEPT !.name = logCreatorName])

CallAddLogCreators(p, logCreators) ==
    /\ At(p, "idle")
    /\ Call(p, "AddLock", [NoLocal EXCEPT !.batch = logCreators])

CallLogIt(p, level) ==
    /\ At(p, "idle")
    /\ Call(p, "LogAccept", [NoLocal EXCEPT !.level = level, !.seen = InForce])

CallSetLogLevel(p, lv) ==
    /\ At(p, "idle")
    /\ Call(p, "SetStore", [NoLocal EXCEPT !.level = lv])

CallGetCurrentLogCreator(p) ==
    /\ At(p, "idle")
    /\ Call(p, "GetRLock", NoLocal)

CallGetLogCreatorList(p) ==
    /\ At(p, "idle")
    /\ Call(p, "ListRLock", NoLocal)

CallShutdown(p) ==
    /\ At(p, "idle")
    /\ Call(p, "ShutRange", NoLocal)

CallLogCreator(p) ==
    /\ At(p, "idle")
    /\ Call(p, "ReadLogCreator", NoLocal)

CallLogLevel(p) ==
    /\ At(p, "idle")
    /\ Call(p, "ReadLogLevel", NoLocal)

\* ChangeLogCreator: l.changeMutex.RLock()
ChangeRLock(p) ==
    /\ At(p, "ChangeRLock")
    /\ ~wlock
    /\ rlock' = rlock + 1
    /\ Goto(p, "ChangeLookup")
    /\ UNCHANGED <<logCreatorList, logLevel, currentLogCreator, defaultCreator,
                   crashed, last, wlock, loc>>

\* ChangeLogCreator: if _, ok := l.logCreatorList[logCreatorName]; !ok
ChangeLookup(p) ==
    /\ At(p, "ChangeLookup")
    /\ IF loc[p].name \in DOMAIN logCreatorList
         THEN Goto(p, "ChangeAssign")
         ELSE Goto(p, "ChangeRUnlock")
    /\ UNCHANGED <<logCreatorList, logLevel, currentLogCreator, defaultCreator, rlock,
                   crashed, last, wlock, loc>>

\* ChangeLogCreator: l.currentLogCreator = l.logCreatorList[logCreatorName]
ChangeAssign(p) ==
    /\ At(p, "ChangeAssign")
    /\ currentLogCreator' = IF loc[p].name \in DOMAIN logCreatorList
                              THEN logCreatorList[loc[p].name]
                              ELSE Nil
    /\ Goto(p, "ChangeRUnlock")
    /\ UNCHANGED <<logCreatorList, logLevel, defaultCreator, rlock,
                   crashed, last, wlock, loc>>

\* ChangeLogCreator: the deferred l.changeMutex.RUnlock()
ChangeRUnlock(p) ==
    /\ At(p, "ChangeRUnlock")
    /\ rlock' = rlock - 1
    /\ Done(p)
    /\ UNCHANGED <<logCreatorList, logLevel, currentLogCreator, defaultCreator,
                   crashed, last, wlock>>

\* AddLogCreators: l.changeMutex.Lock()
AddLock(p) ==
    /\ At(p, "AddLock")
    /\ ~wlock
    /\ rlock = 0
    /\ wlock' = TRUE
    /\ Goto(p, "AddStore")
    /\ loc' = [loc EXCEPT ![p].i = 1]
    /\ UNCHANGED <<logCreatorList, logLevel, currentLogCreator, defaultCreator, rlock,
                   crashed, last>>

\* AddLogCreators: one turn of the loop
AddStore(p) ==
    /\ At(p, "AddStore")
    /\ loc[p].i <= Len(loc[p].batch)
    /\ LET lc == loc[p].batch[loc[p].i]
       IN logCreatorList' = IF lc # Nil /\ lc # TypedNil
                              THEN MapPut(logCreatorList, LogName(lc), lc)
                              ELSE logCreatorList
    /\ loc' = [loc EXCEPT ![p].i = @ + 1]
    /\ UNCHANGED <<logLevel, currentLogCreator, defaultCreator, rlock,
                   crashed, last, wlock, pc>>

\* AddLogCreators: l.changeMutex.Unlock() after the loop
AddUnlock(p) ==
    /\ At(p, "AddStore")
    /\ loc[p].i > Len(loc[p].batch)
    /\ wlock' = FALSE
    /\ Goto(p, "AddTest")
    /\ UNCHANGED <<logCreatorList, logLevel, currentLogCreator, defaultCreator, rlock,
                   crashed, last, loc>>

\* AddLogCreators: if l.currentLogCreator == nil
\*                     { l.ChangeLogCreator(logCreators[0].LogName()) }
AddTest(p) ==
    /\ At(p, "AddTest")
    /\ IF currentLogCreator # Nil
         THEN Done(p) /\ UNCHANGED crashed
         ELSE IF Len(loc[p].batch) = 0 \/ loc[p].batch[1] \in {Nil, TypedNil}
                THEN crashed' = TRUE /\ UNCHANGED <<pc, loc>>
                ELSE /\ Goto(p, "ChangeRLock")
                     /\ loc' = [loc EXCEPT ![p].name = LogName(loc[p].batch[1])]
                     /\ UNCHANGED crashed
    /\ UNCHANGED <<logCreatorList, logLevel, currentLogCreator, defaultCreator, rlock,
                   last, wlock>>

\* GetCurrentLogCreator: l.changeMutex.RLock()
GetRLock(p) ==
    /\ At(p, "GetRLock")
    /\ ~wlock
    /\ rlock' = rlock + 1
    /\ Goto(p, "GetRead")
    /\ UNCHANGED <<logCreatorList, logLevel, currentLogCreator, defaultCreator,
                   crashed, last, wlock, loc>>

\* GetCurrentLogCreator: if len(l.logCreatorList) == 0, and the name of the
\* active creator for the answer; out is the answer.
GetRead(p) ==
    /\ At(p, "GetRead")
    /\ IF DOMAIN logCreatorList = {}
         THEN /\ Goto(p, "GetRUnlock")
              /\ loc' = [loc EXCEPT ![p].out = "StatusNotFound"]
              /\ UNCHANGED crashed
         ELSE IF currentLogCreator = Nil
                THEN crashed' = TRUE /\ UNCHANGED <<pc, loc>>
                ELSE /\ Goto(p, "GetRUnlock")
                     /\ loc' = [loc EXCEPT ![p].out = LogName(currentLogCreator)]
                     /\ UNCHANGED crashed
    /\ UNCHANGED <<logCreatorList, logLevel, currentLogCreator, defaultCreator, rlock,
                   last, wlock>>

\* GetCurrentLogCreator: the deferred l.changeMutex.RUnlock()
GetRUnlock(p) ==
    /\ At(p, "GetRUnlock")
    /\ rlock' = rlock - 1
    /\ Done(p)
    /\ UNCHANGED <<logCreatorList, logLevel, currentLogCreator, defaultCreator,
                   crashed, last, wlock>>

\* GetLogCreatorList: l.changeMutex.RLock()
ListRLock(p) ==
    /\ At(p, "ListRLock")
    /\ ~wlock
    /\ rlock' = rlock + 1
    /\ Goto(p, "ListRange")
    /\ UNCHANGED <<logCreatorList, logLevel, currentLogCreator, defaultCreator,
                   crashed, last, wlock, loc>>

\* GetLogCreatorList: for k := range l.logCreatorList
\*                        { result = append(result, string(k)) }
ListRange(p) ==
    /\ At(p, "ListRange")
    /\ Goto(p, "ListRUnlock")
    /\ loc' = [loc EXCEPT ![p].names = DOMAIN logCreatorList]
    /\ UNCHANGED <<logCreatorList, logLevel, currentLogCreator, defaultCreator, rlock,
                   crashed, last, wlock>>

\* GetLogCreatorList: the deferred l.changeMutex.RUnlock()
ListRUnlock(p) ==
    /\ At(p, "ListRUnlock")
    /\ rlock' = rlock - 1
    /\ Done(p)
    /\ UNCHANGED <<logCreatorList, logLevel, currentLogCreator, defaultCreator,
                   crashed, last, wlock>>

\* A goroutine is inside the loop of AddLogCreators, where it assigns to
\* entries of logCreatorList.
InAddLoop(q) == pc[q] = "AddStore" /\ loc[q].i <= Len(loc[q].batch)

\* Shutdown: for _, logCreator := range l.logCreatorList, the start of the
\* iteration
ShutRange(p) ==
    /\ At(p, "ShutRange")
    /\ Goto(p, "ShutNext")
    /\ loc' = [loc EXCEPT ![p].names = DOMAIN logCreatorList]
    /\ UNCHANGED <<logCreatorList, logLevel, currentLogCreator, defaultCreator, rlock,
                   crashed, last, wlock>>

\* Shutdown: one turn of the loop, logCreator.Shutdown().  An iteration
\* that meets an assignment to the map is a data race: the runtime either
\* stops the program (concurrent map iteration and map write) or goes on.
ShutNext(p) ==
    /\ At(p, "ShutNext")
    /\ \E k \in DOMAIN logCreatorList \ loc[p].shut :
         \/ /\ loc' = [loc EXCEPT ![p].shut = @ \cup {k}]
            /\ UNCHANGED <<pc, crashed>>
         \/ /\ \E q \in Procs \ {p} : InAddLoop(q)
            /\ crashed' = TRUE
            /\ UNCHANGED <<pc, loc>>
    /\ UNCHANGED <<logCreatorList, logLevel, currentLogCreator, defaultCreator, rlock,
                   last, wlock>>

\* Shutdown: the iteration ends.  It has produced every entry that was in
\* the map when it began; an entry created since may have been skipped.
ShutEnd(p) ==
    /\ At(p, "ShutNext")
    /\ loc[p].names \subseteq loc[p].shut
    /\ Done(p)
    /\ UNCHANGED <<logCreatorList, logLevel, currentLogCreator, defaultCreator, rlock,
                   crashed, last, wlock>>

\* LogIt ends: out is the branch it took, wrote the creator it wrote to.
LogEnds(p, out, wrote) ==
    /\ Goto(p, "LogReturn")
    /\ loc' = [loc EXCEPT ![p].out = out, ![p].wrote = wrote]

\* LogIt: l.logLevel.IsLogLevelAcceptable(level), first test
LogAccept(p) ==
    /\ At(p, "LogAccept")
    /\ \E thr \in LevelReads :
         IF LogLevel_IsLogLevelAcceptable(thr, loc[p].level)
           THEN Goto(p, "LogReady")
           ELSE Goto(p, "LogAccept2")
    /\ UNCHANGED <<logCreatorList, logLevel, currentLogCreator, defaultCreator, rlock,
                   crashed, last, wlock, loc>>

\* LogIt: l.currentLogCreator.IsReady(), first test
LogReady(p) ==
    /\ At(p, "LogReady")
    /\ IF currentLogCreator = Nil
         THEN crashed' = TRUE /\ UNCHANGED <<pc, loc>>
         ELSE /\ \E rdy \in BOOLEAN :
                   /\ IF rdy THEN Goto(p, "LogWrite") ELSE Goto(p, "LogAccept2")
                   /\ loc' = [loc EXCEPT ![p].asked = currentLogCreator,
                                         ![p].ready = Append(@, rdy)]
              /\ UNCHANGED crashed
    /\ UNCHANGED <<logCreatorList, logLevel, currentLogCreator, defaultCreator, rlock,
                   last, wlock>>

\* LogIt: return l.currentLogCreator.LogIt(level, logMessage)
LogWrite(p) ==
    /\ At(p, "LogWrite")
    /\ IF currentLogCreator = Nil
         THEN crashed' = TRUE /\ UNCHANGED <<pc, loc>>
         ELSE LogEnds(p, "active", currentLogCreator) /\ UNCHANGED crashed
    /\ UNCHANGED <<logCreatorList, logLevel, currentLogCreator, defaultCreator, rlock,
                   last, wlock>>

\* LogIt: l.logLevel.IsLogLevelAcceptable(level), second test
LogAccept2(p) ==
    /\ At(p, "LogAccept2")
    /\ \E thr \in LevelReads :
         IF LogLevel_IsLogLevelAcceptable(thr, loc[p].level)
           THEN Goto(p, "LogReady2") /\ UNCHANGED loc
           ELSE LogEnds(p, "none", Nil)
    /\ UNCHANGED <<logCreatorList, logLevel, currentLogCreator, defaultCreator, rlock,
                   crashed, last, wlock>>

\* LogIt: !l.currentLogCreator.IsReady() && l.defaultCreator != nil
LogReady2(p) ==
    /\ At(p, "LogReady2")
    /\ IF currentLogCreator = Nil
         THEN crashed' = TRUE /\ UNCHANGED <<pc, loc>>
         ELSE /\ \E rdy \in BOOLEAN :
                   /\ pc' = [pc EXCEPT ![p] = IF ~rdy /\ defaultCreator # Nil
                                                THEN "LogDefault"
                                                ELSE "LogReturn"]
                   /\ loc' = [loc EXCEPT ![p].asked = currentLogCreator,
                                         ![p].ready = Append(@, rdy),
                                         ![p].out = IF ~rdy /\ defaultCreator # Nil
                                                      THEN @
                                                      ELSE "none"]
              /\ UNCHANGED crashed
    /\ UNCHANGED <<logCreatorList, logLevel, currentLogCreator, defaultCreator, rlock,
                   last, wlock>>

\* LogIt: return l.defaultCreator.LogIt(level, logMessage)
LogDefault(p) ==
    /\ At(p, "LogDefault")
    /\ LogEnds(p, "default", defaultCreator)
    /\ UNCHANGED <<logCreatorList, logLevel, currentLogCreator, defaultCreator, rlock,
                   crashed, last, wlock>>

\* LogIt has returned: the caller takes its result.
LogReturn(p) ==
    /\ At(p, "LogReturn")
    /\ Done(p)
    /\ UNCHANGED <<logCreatorList, logLevel, currentLogCreator, defaultCreator, rlock,
                   crashed, last, wlock>>

\* SetLogLevel: if logLevel.IsValid(), and the first word of
\* l.logLevel = logLevel
SetStore(p) ==
    /\ At(p, "SetStore")
    /\ IF IsValid(loc[p].level)
         THEN /\ pc' = [pc EXCEPT ![p] = "SetStoreLen"]
              /\ loc' = Seen(loc, {loc[p].level})
         ELSE Done(p)
    /\ UNCHANGED <<logCreatorList, logLevel, currentLogCreator, defaultCreator, rlock,
                   crashed, last, wlock>>

\* SetLogLevel: the second word of l.logLevel = logLevel.  When another
\* store of a text of another length is under way, the two words in memory
\* may come from different stores.
SetStoreLen(p) ==
    /\ At(p, "SetStoreLen")
    /\ \E v \in {loc[p].level}
                 \cup {TornLevel : q \in {r \in Procs \ {p} :
                                           /\ Storing(r)
                                           /\ Len(loc[r].level) # Len(loc[p].level)}} :
         /\ logLevel' = v
         /\ pc' = [pc EXCEPT ![p] = "idle"]
         /\ loc' = [Seen(loc, {v}) EXCEPT ![p] = NoLocal]
    /\ UNCHANGED <<logCreatorList, currentLogCreator, defaultCreator, rlock,
                   crashed, last, wlock>>

\* LogCreator(): return l.currentLogCreator
ReadLogCreator(p) ==
    /\ At(p, "ReadLogCreator")
    /\ Done(p)
    /\ UNCHANGED <<logCreatorList, logLevel, currentLogCreator, defaultCreator, rlock,
                   crashed, last, wlock>>

\* LogLevel(): return l.logLevel
ReadLogLevel(p) ==
    /\ At(p, "ReadLogLevel")
    /\ Done(p)
    /\ UNCHANGED <<logCreatorList, logLevel, currentLogCreator, defaultCreator, rlock,
                   crashed, last, wlock>>

NextConc ==
    \E p \in Procs :
        \/ \E n \in NameInputs : CallChangeLogCreator(p, n)
        \/ \E b \in ConcBatches : CallAddLogCreators(p, b)
        \/ \E lv \in ConcLogLevels : CallLogIt(p, lv)
        \/ \E lv \in ConcThresholds : CallSetLogLevel(p, lv)
        \/ CallLogCreator(p)
        \/ CallLogLevel(p)
        \/ CallGetCurrentLogCreator(p)
        \/ CallGetLogCreatorList(p)
        \/ CallShutdown(p)
        \/ ChangeRLock(p)
        \/ ChangeLookup(p)
        \/ ChangeAssign(p)
        \/ ChangeRUnlock(p)
        \/ AddLock(p)
        \/ AddStore(p)
        \/ AddUnlock(p)
        \/ AddTest(p)
        \/ LogAccept(p)
        \/ LogReady(p)
        \/ LogWrite(p)
        \/ LogAccept2(p)
        \/ LogReady2(p)
        \/ LogDefault(p)
        \/ LogReturn(p)
        \/ SetStore(p)
        \/ SetStoreLen(p)
        \/ ReadLogCreator(p)
        \/ ReadLogLevel(p)
        \/ GetRLock(p)
        \/ GetRead(p)
        \/ GetRUnlock(p)
        \/ ListRLock(p)
        \/ ListRange(p)
        \/ ListRUnlock(p)
        \/ ShutRange(p)
        \/ ShutNext(p)
        \/ ShutEnd(p)

SpecConc == InitConc /\ [][NextConc]_vars

----------------------------------------------------------------------------
(* Properties *)

\* Position of a level in the fixed ordering NONE < FATAL < ... < TRACE.
Rank(l) == (CHOOSE i \in 1..Len(LogLevelList) : LogLevelList[i] = l) - 1

\* Severity: FATAL is the most severe level, TRACE the least severe level a
\* record can carry, NONE is below all of them.
Severity(l) == IF l = NONE THEN 0 ELSE Len(LogLevelList) - Rank(l)

MoreSevere(a, b) == Severity(a) > Severity(b)

IsLogCall == last.op \in LogOps

\* The active creator was asked and every answer of IsReady() was "ready".
ReportsReady ==
    Len(last.ready) > 0 /\ \A i \in 1..Len(last.ready) : last.ready[i]

\* No answer of IsReady() during the call was "ready".
ReportsNotReady == \A i \in 1..Len(last.ready) : ~last.ready[i]

\* C1 as stated: for every threshold and every one of the seven levels, a log
\* call's acceptance test is true iff the threshold is not NONE and the
\* level's rank is at most the threshold's rank.
C1_AcceptsIffRankAllSeven ==
    (IsLogCall /\ last.level \in DefinedLevels)
        => (last.acc <=> (logLevel # NONE /\ Rank(last.level) <= Rank(logLevel)))

\* C1 amended: the rank rule holds for the six levels FATAL..TRACE of a
\* record; a record of level NONE is accepted at no threshold.
C1_AcceptsIffRank ==
    (IsLogCall /\ last.level \in DefinedLevels)
        => (last.acc <=> (/\ logLevel # NONE
                          /\ last.level # NONE
                          /\ Rank(last.level) <= Rank(logLevel)))

C1_Witness ==
    IsLogCall /\ logLevel = DEBUG /\ last.level = WARN /\ last.acc

\* C2: acceptance is monotonic: when a log call's level is accepted at the
\* threshold, every strictly more severe level is accepted at that threshold.
C2_AcceptanceMonotonic ==
    (IsLogCall /\ last.acc)
        => \A m \in DefinedLevels :
              MoreSevere(m, last.level)
                  => /\ IsLogLevelAcceptable(logLevel, m)
                     /\ LogLevel_IsLogLevelAcceptable(logLevel, m)

C2_Witness ==
    IsLogCall /\ logLevel = ERROR /\ last.level = ERROR /\ last.acc

\* C3: a log call whose level the threshold rejects returns false and writes
\* to no creator, whatever the registry holds.
C3_RejectedWritesNothing ==
    (IsLogCall /\ ~IsLogLevelAcceptable(logLevel, last.level))
        => (~last.panic /\ ~last.ret /\ last.writes = <<>>)

C3_Witness ==
    /\ IsLogCall /\ logLevel = FATAL /\ last.level = ERROR
    /\ currentLogCreator # Nil /\ defaultCreator # Nil
    /\ ~last.ret

\* C4: an accepted level with a ready active creator is written exactly once,
\* through the active reference, the call returns that write's result, and a
\* distinct fallback creator is not written.
C4_ReadyActiveWritten ==
    (/\ IsLogCall
     /\ IsLogLevelAcceptable(logLevel, last.level)
     /\ currentLogCreator # Nil
     /\ ReportsReady)
        => /\ ~last.panic
           /\ Len(last.writes) = 1
           /\ last.writes[1].via = "active"
           /\ last.writes[1].sink = currentLogCreator
           /\ last.writes[1].level = last.level
           /\ last.ret = last.writes[1].result
           /\ defaultCreator # currentLogCreator
                 => \A i \in 1..Len(last.writes) : last.writes[i].sink # defaultCreator

C4_Witness ==
    /\ IsLogCall /\ logLevel = TRACE /\ ReportsReady
    /\ currentLogCreator # Nil /\ defaultCreator \notin {Nil, currentLogCreator}
    /\ last.ret /\ Len(last.writes) = 1

\* C5: an accepted level with an active creator that is not ready and a
\* configured fallback is written exactly once, through the fallback
\* reference, the call returns that write's result, and a distinct active
\* creator is not written.
C5_NotReadyUsesFallback ==
    (/\ IsLogCall
     /\ IsLogLevelAcceptable(logLevel, last.level)
     /\ currentLogCreator # Nil
     /\ ReportsNotReady
     /\ defaultCreator # Nil)
        => /\ ~last.panic
           /\ Len(last.writes) = 1
           /\ last.writes[1].via = "default"
           /\ last.writes[1].sink = defaultCreator
           /\ last.writes[1].level = last.level
           /\ last.ret = last.writes[1].result
           /\ defaultCreator # currentLogCreator
                 => \A i \in 1..Len(last.writes) : last.writes[i].sink # currentLogCreator

C5_Witness ==
    /\ IsLogCall /\ logLevel = TRACE /\ last.ready = <<FALSE, FALSE>>
    /\ currentLogCreator # Nil /\ defaultCreator \notin {Nil, currentLogCreator}
    /\ last.ret /\ Len(last.writes) = 1

\* C6: with an active creator that is not ready and no fallback, a log call
\* returns false and writes to no creator.
C6_NotReadyNoFallbackDrops ==
    (IsLogCall /\ currentLogCreator # Nil /\ ReportsNotReady /\ defaultCreator = Nil)
        => (~last.panic /\ ~last.ret /\ last.writes = <<>>)

C6_Witness ==
    /\ IsLogCall /\ currentLogCreator # Nil /\ defaultCreator = Nil
    /\ last.ready = <<FALSE, FALSE>>
    /\ IsLogLevelAcceptable(logLevel, last.level)

\* C7 as stated: with no active creator a log call returns false, completes
\* normally and writes to no creator, for every threshold and level.
C7_NoActiveReturnsFalse ==
    (IsLogCall /\ currentLogCreator = Nil)
        => (~last.panic /\ ~last.ret /\ last.writes = <<>>)

\* C8 as stated: while the program runs, the active creator is unset and the
\* registry empty, or the active creator is the very object the mapping holds
\* under its name.
C8_ActiveIsRegistered ==
    ~crashed
        => \/ currentLogCreator = Nil /\ DOMAIN logCreatorList = {}
           \/ /\ currentLogCreator # Nil
              /\ LogName(currentLogCreator) \in DOMAIN logCreatorList
              /\ logCreatorList[LogName(currentLogCreator)] = currentLogCreator

\* C9 as stated: registering a non-empty batch of non-null creators while no
\* creator is active makes the first creator of the batch the active one.
C9_FirstOfBatchActive ==
    [][(/\ last'.op = "AddLogCreators"
        /\ currentLogCreator = Nil
        /\ Len(last'.batch) > 0
        /\ \A i \in 1..Len(last'.batch) : last'.batch[i] \in Sinks)
          => currentLogCreator' = last'.batch[1]]_vars

\* C10: registering any batch while a creator is active leaves the active
\* creator unchanged, and the call returns normally.
C10_RegisterKeepsActive ==
    [][(last'.op = "AddLogCreators" /\ currentLogCreator # Nil)
          => (currentLogCreator' = currentLogCreator /\ ~crashed')]_vars

C10_Witness ==
    /\ last.op = "AddLogCreators" /\ ~crashed
    /\ Len(last.batch) = 2 /\ last.batch[1] \in Sinks
    /\ currentLogCreator # Nil
    /\ LogName(currentLogCreator) # LogName(last.batch[1])

\* C11: ChangeLogCreator(name) returns true exactly when name is a key of
\* logCreatorList; when it returns true the active creator afterwards is the
\* one registered under name, when it returns false the active creator is
\* unchanged; the mapping and the threshold are unchanged either way.
C11_ChangeLogCreator ==
    [][last'.op = "ChangeLogCreator" =>
         /\ last'.ret <=> (last'.name \in DOMAIN logCreatorList)
         /\ last'.ret => currentLogCreator' = logCreatorList'[last'.name]
         /\ ~last'.ret => currentLogCreator' = currentLogCreator
         /\ logCreatorList' = logCreatorList
         /\ logLevel' = logLevel]_vars

\* An unknown name is refused while a creator is active.
C11_Witness ==
    /\ last.op = "ChangeLogCreator"
    /\ ~last.ret
    /\ last.name \notin DOMAIN logCreatorList
    /\ currentLogCreator # Nil

\* C12: SetLogLevel(level) returns true exactly when level is one of the
\* seven defined levels; when it returns true the threshold afterwards is
\* level, when it returns false the threshold is unchanged.
C12_SetLogLevel ==
    [][last'.op = "SetLogLevel" =>
         /\ last'.ret <=> (last'.level \in DefinedLevels)
         /\ last'.ret => logLevel' = last'.level
         /\ ~last'.ret => logLevel' = logLevel]_vars

\* A text that is not a level is refused after the threshold has been set.
C12_Witness ==
    /\ last.op = "SetLogLevel"
    /\ ~last.ret
    /\ last.level \notin DefinedLevels
    /\ logLevel # NONE

\* C13: in every reachable state the threshold is one of the seven defined
\* levels, whatever calls and requests were made, requests to set the level
\* with arbitrary text included.
C13_ThresholdDefined == logLevel \in DefinedLevels

\* A request to set the level carried a text that is not a level and was
\* answered.
C13_Witness ==
    /\ last.op = "SetLogLevelHandlerFunc"
    /\ last.status = StatusOK
    /\ last.level \notin DefinedLevels
    /\ logLevel # NONE

\* C14: a registry that New() has just returned has an empty mapping, the
\* threshold NONE, no active creator and no default creator.
C14_NewRegistry ==
    last.op = "New" =>
        /\ DOMAIN logCreatorList = {}
        /\ logLevel = NONE
        /\ currentLogCreator = Nil
        /\ defaultCreator = Nil

\* The registry as New() returned it, before any call.
C14_Witness == last.op = "New" /\ ~crashed /\ rlock = 0

\* The creators of a batch: its entries that are neither nil nor typed nil.
BatchSinks(batch) == {i \in 1..Len(batch) : batch[i] \in Sinks}

\* The creator a batch registers under a name: its last entry of that name.
LastNamed(batch, n) ==
    LET at == {i \in BatchSinks(batch) : LogName(batch[i]) = n}
    IN batch[CHOOSE i \in at : \A j \in at : j <= i]

\* C15: AddLogCreators with a creator whose name is already a key replaces
\* the entry of that name by the new creator; names stay unique, the mapping
\* gains no key for it, and Shutdown is not invoked on the replaced creator.
C15_RegisterReplaces ==
    [][last'.op = "AddLogCreators" =>
         \A i \in BatchSinks(last'.batch) :
            LogName(last'.batch[i]) \in DOMAIN logCreatorList =>
               /\ logCreatorList'[LogName(last'.batch[i])]
                     = LastNamed(last'.batch, LogName(last'.batch[i]))
               /\ DOMAIN logCreatorList' =
                     DOMAIN logCreatorList
                       \cup {LogName(last'.batch[j]) : j \in BatchSinks(last'.batch)}
               /\ last'.shut = {}
               /\ ~last'.panic]_vars

\* A creator was registered under the name of the active creator, which is
\* another object and is no longer in the mapping.
C15_Witness ==
    /\ last.op = "AddLogCreators"
    /\ \E i \in BatchSinks(last.batch) :
          /\ logCreatorList[LogName(last.batch[i])] = last.batch[i]
          /\ currentLogCreator \in Sinks \ {last.batch[i]}
          /\ LogName(currentLogCreator) = LogName(last.batch[i])
    /\ Cardinality(DOMAIN logCreatorList) = 1

\* C16: AddLogCreators with an empty batch, or a batch of nil entries only,
\* leaves the mapping and the active creator unchanged and returns normally,
\* in every state of the registry, one without an active creator included.
C16_NullBatchIsNoOp ==
    [][(last'.op = "AddLogCreators" /\ BatchSinks(last'.batch) = {}) =>
         /\ logCreatorList' = logCreatorList
         /\ currentLogCreator' = currentLogCreator
         /\ ~last'.panic]_vars

\* The creators in the mapping.
Registered == {logCreatorList[n] : n \in DOMAIN logCreatorList}

\* C17 as stated: a LogIt / LogItWithCallDepth call writes to at most one
\* creator, and to no registered creator other than the active one.
C17_OnlyActiveRegisteredWritten ==
    IsLogCall =>
        /\ Len(last.writes) <= 1
        /\ \A i \in 1..Len(last.writes) :
              last.writes[i].sink \in Registered
                 => last.writes[i].sink = currentLogCreator

\* C17: a LogIt / LogItWithCallDepth call writes to at most one creator: to
\* the active creator or to the default creator, never to both, and to no
\* creator other than these two.
C17_AtMostOneWrite ==
    IsLogCall =>
        /\ Len(last.writes) <= 1
        /\ \A i \in 1..Len(last.writes) :
              /\ last.writes[i].sink \in {currentLogCreator, defaultCreator} \ {Nil}
              /\ last.writes[i].via = "active" => last.writes[i].sink = currentLogCreator
              /\ last.writes[i].via = "default" => last.writes[i].sink = defaultCreator

\* The record went to the default creator, which is registered and is not
\* the active creator, while two creators are registered.
C17_Witness ==
    /\ IsLogCall
    /\ Len(last.writes) = 1
    /\ last.writes[1].via = "default"
    /\ defaultCreator \in Registered \ {currentLogCreator}
    /\ currentLogCreator \in Registered

\* C18: Shutdown() invokes Shutdown on every creator in the mapping and
\* leaves the mapping, the active creator, the default creator and the
\* threshold unchanged.
C18_ShutdownAll ==
    [][last'.op = "Shutdown" =>
         /\ Registered \subseteq last'.shut
         /\ logCreatorList' = logCreatorList
         /\ currentLogCreator' = currentLogCreator
         /\ defaultCreator' = defaultCreator
         /\ logLevel' = logLevel]_vars

\* Shutdown() ran with two creators registered.
C18_Witness ==
    /\ last.op = "Shutdown"
    /\ Cardinality(Registered) = 2
    /\ last.shut = Registered

\* C19: after Shutdown(), Shutdown has been invoked on every creator the
\* registry still refers to: those in the mapping, the active creator and
\* the default creator.
C19_ShutdownReachesAllHeld ==
    last.op = "Shutdown" =>
        (Registered \cup ({currentLogCreator, defaultCreator} \ {Nil})) \subseteq last.shut

\* C22: in every state of the registry and for every level, LogIt and
\* LogItWithCallDepth take the same branch (none, active creator, default
\* creator) on the same answers of IsReady(), so they return the same result
\* on the same result of the creator; LogItWithCallDepth hands the chosen
\* creator the call depth it was given.
C22_SameDispatch ==
    /\ \A lv \in LevelInputs, rdy1 \in BOOLEAN, rdy2 \in BOOLEAN :
          /\ LogItWithCallDepthTarget(logLevel, currentLogCreator, defaultCreator,
                                      rdy1, rdy2, lv)
               = LogItTarget(logLevel, currentLogCreator, defaultCreator, rdy1, rdy2, lv)
          /\ LogItWithCallDepthAsked(logLevel, currentLogCreator, rdy1, rdy2, lv)
               = LogItAsked(logLevel, currentLogCreator, rdy1, rdy2, lv)
    /\ last.op = "LogItWithCallDepth" =>
          \A i \in 1..Len(last.writes) :
             /\ last.writes[i].depth = last.depth
             /\ last.writes[i].method = "LogItWithCallDepth"

\* LogItWithCallDepth with a call depth above zero fell back to the default
\* creator.
C22_Witness ==
    /\ last.op = "LogItWithCallDepth"
    /\ last.depth > 0
    /\ Len(last.writes) = 1
    /\ last.writes[1].via = "default"
    /\ last.writes[1].depth = last.depth

\* C23: routing follows the latest successful activation.  Once a creator
\* is active, the active creator changes only in a ChangeLogCreator call or
\* a change request that returns true, and then to the creator registered
\* under the requested name; an accepted log call whose active creator
\* reports ready writes once, to the active creator; a log call that is not
\* accepted writes nothing and returns false.
C23_RoutingFollowsActivate ==
    [][/\ (currentLogCreator # Nil /\ currentLogCreator' # currentLogCreator) =>
          /\ last'.op \in {"ChangeLogCreator", "ChangeActiveLogCreator"}
          /\ last'.ret
       /\ (last'.op \in {"ChangeLogCreator", "ChangeActiveLogCreator"} /\ last'.ret) =>
          currentLogCreator' = logCreatorList[last'.name]
       /\ (last'.op \in LogOps /\ last'.acc /\ Len(last'.ready) > 0
             /\ \A i \in 1..Len(last'.ready) : last'.ready[i]) =>
          /\ Len(last'.writes) = 1
          /\ last'.writes[1].sink = currentLogCreator
          /\ last'.writes[1].via = "active"
       /\ (last'.op \in LogOps /\ ~last'.acc) =>
          /\ last'.writes = <<>>
          /\ ~last'.ret]_vars

\* Console and File are registered, File is active, the threshold is FATAL:
\* LogIt(ERROR) returned false and wrote nothing.
C23_Witness ==
    /\ last.op = "LogIt"
    /\ last.level = ERROR
    /\ logLevel = FATAL
    /\ DOMAIN logCreatorList = {"Console", "File"}
    /\ currentLogCreator = logCreatorList["File"]
    /\ last.writes = <<>>
    /\ ~last.ret

\* The fields of the registry and its mutex are left as they were.
RegistryUnchanged ==
    /\ logCreatorList' = logCreatorList
    /\ currentLogCreator' = currentLogCreator
    /\ defaultCreator' = defaultCreator
    /\ logLevel' = logLevel
    /\ rlock' = rlock
    /\ wlock' = wlock

\* C24: GetCurrentLogCreator answers 404 when no creator is registered and
\* otherwise 200 with current_log_creator the name of the active creator; it
\* changes nothing in the registry.
C24_GetCurrentLogCreator ==
    [][last'.op = "GetCurrentLogCreator" =>
         /\ DOMAIN logCreatorList = {} => last'.status = StatusNotFound
         /\ DOMAIN logCreatorList # {} =>
               /\ last'.status = StatusOK
               /\ currentLogCreator # Nil
               /\ last'.current = LogName(currentLogCreator)
         /\ RegistryUnchanged]_vars

\* The request was answered with the name of an active creator that the
\* mapping no longer holds under that name.
C24_Witness ==
    /\ last.op = "GetCurrentLogCreator"
    /\ last.status = StatusOK
    /\ currentLogCreator # Nil
    /\ last.current = LogName(currentLogCreator)
    /\ logCreatorList[last.current] # currentLogCreator

\* C25: in every change request answered with 200, old_log_creator is the
\* name of the active creator before the request and current_log_creator
\* the name of the active creator after it: the requested name when it is
\* registered, the old name, with the active creator unchanged, when the
\* request names an unknown creator or has no effect for another reason.
C25_ChangeResponse ==
    [][(last'.op = "ChangeActiveLogCreator" /\ last'.status = StatusOK) =>
         /\ last'.old = LogName(currentLogCreator)
         /\ last'.current = LogName(currentLogCreator')
         /\ last'.name \in DOMAIN logCreatorList => last'.current = last'.name
         /\ last'.name \notin DOMAIN logCreatorList =>
               /\ currentLogCreator' = currentLogCreator
               /\ last'.current = last'.old]_vars

\* C26: in every request to set the level answered with 200, old_log_level
\* is the threshold before the request and current_log_level the threshold
\* after it: the requested level when the body is the name of a level, the
\* old level, with the threshold unchanged, when it is not.
C26_SetLevelResponse ==
    [][(last'.op = "SetLogLevelHandlerFunc" /\ last'.status = StatusOK) =>
         /\ last'.old = logLevel
         /\ last'.current = logLevel'
         /\ last'.level \in DefinedLevels => logLevel' = last'.level
         /\ last'.level \notin DefinedLevels => logLevel' = logLevel]_vars

\* A request whose body is no level was answered 200 with the old level as
\* the current one.
C26_Witness ==
    /\ last.op = "SetLogLevelHandlerFunc"
    /\ last.status = StatusOK
    /\ last.level \notin DefinedLevels
    /\ last.current = last.old
    /\ last.current = logLevel
    /\ logLevel # NONE

\* A request that the handlers take as malformed: a change request with
\* another method than POST, a body that does not decode or an empty
\* payload; a request to set the level with another method than POST or a
\* body that cannot be read.
Malformed(call) ==
    \/ /\ call.op = "ChangeActiveLogCreator"
       /\ call.method # "POST" \/ call.body \in {"undecodable", "empty"}
    \/ /\ call.op = "SetLogLevelHandlerFunc"
       /\ call.method # "POST" \/ call.body = "unreadable"

\* C27: a malformed request on a registry that is not empty is answered
\* with 400 and leaves the mapping, the active creator and the threshold
\* unchanged.
C27_MalformedRejected ==
    [][(Malformed(last') /\ DOMAIN logCreatorList # {}) =>
         /\ last'.status = StatusBadRequest
         /\ logCreatorList' = logCreatorList
         /\ currentLogCreator' = currentLogCreator
         /\ logLevel' = logLevel]_vars

\* A change request sent with GET was refused although its body names a
\* registered creator that is not the active one.
C27_Witness ==
    /\ last.op = "ChangeActiveLogCreator"
    /\ last.method = "GET"
    /\ last.body = "log_creator"
    /\ last.status = StatusBadRequest
    /\ Cardinality(DOMAIN logCreatorList) = 2

\* C28: GetActiveLogLevel answers 404 when no creator is registered and
\* otherwise 200 with log_level the threshold; GetLogCreatorList answers 200
\* with exactly the names that are keys of the mapping; neither changes
\* anything in the registry.
C28_Queries ==
    [][/\ last'.op = "GetActiveLogLevel" =>
            /\ DOMAIN logCreatorList = {} => last'.status = StatusNotFound
            /\ DOMAIN logCreatorList # {} =>
                  /\ last'.status = StatusOK
                  /\ last'.current = logLevel
            /\ RegistryUnchanged
       /\ last'.op = "GetLogCreatorList" =>
            /\ last'.status = StatusOK
            /\ last'.names = DOMAIN logCreatorList
            /\ RegistryUnchanged]_vars

\* The list request was answered with two names.
C28_Witness ==
    /\ last.op = "GetLogCreatorList"
    /\ last.status = StatusOK
    /\ Cardinality(last.names) = 2
    /\ last.names = DOMAIN logCreatorList

\* C34: AddLogCreators returns normally wherever the nil entries of its
\* batch are (a nil interface or an interface that wraps a nil pointer, the
\* first entry with no creator active included), and afterwards the mapping
\* holds, next to what it held, exactly the other creators of the batch,
\* each under its name.
C34_RegisterSkipsNull ==
    [][(last'.op = "AddLogCreators" /\ ~last'.blocked) =>
         /\ ~last'.panic
         /\ DOMAIN logCreatorList'
              = DOMAIN logCreatorList
                  \cup {LogName(last'.batch[i]) : i \in BatchSinks(last'.batch)}
         /\ \A n \in DOMAIN logCreatorList' :
              logCreatorList'[n] = IF \E i \in BatchSinks(last'.batch) :
                                          LogName(last'.batch[i]) = n
                                     THEN LastNamed(last'.batch, n)
                                     ELSE logCreatorList[n]]_vars

\* C35: a log call with an accepted level, an active creator and a fallback
\* configured writes the record to exactly one creator, the active one or
\* the fallback, whatever IsReady() of the active creator answers each time
\* the call asks it.
C35_AcceptedNeverDropped ==
    (/\ IsLogCall
     /\ last.acc
     /\ currentLogCreator # Nil
     /\ defaultCreator # Nil)
        => /\ Len(last.writes) = 1
           /\ last.writes[1].sink \in {currentLogCreator, defaultCreator}

\* C36: each call changes only its own part of the registry.  LogIt,
\* LogItWithCallDepth, LogLevel() and LogCreator() change no field;
\* SetLogLevel changes at most logLevel, ChangeLogCreator at most
\* currentLogCreator, WithDefaultCreator at most defaultCreator;
\* AddLogCreators changes at most logCreatorList and, when no creator was
\* active, currentLogCreator.  None of them leaves a lock held.
C36_FrameOfEachCall ==
    [][/\ last'.op \in LogOps \cup {"LogLevel", "LogCreator"}
           => UNCHANGED <<logCreatorList, logLevel, currentLogCreator, defaultCreator, rlock>>
       /\ last'.op = "SetLogLevel"
           => UNCHANGED <<logCreatorList, currentLogCreator, defaultCreator, rlock>>
       /\ last'.op = "ChangeLogCreator"
           => UNCHANGED <<logCreatorList, logLevel, defaultCreator, rlock>>
       /\ last'.op = "WithDefaultCreator"
           => UNCHANGED <<logCreatorList, logLevel, currentLogCreator, rlock>>
       /\ last'.op = "AddLogCreators"
           => /\ UNCHANGED <<logLevel, defaultCreator, rlock>>
              /\ currentLogCreator # Nil => UNCHANGED currentLogCreator]_vars

\* AddLogCreators has stored a creator in a registry that has a threshold,
\* a fallback and an active creator that is not of the batch.
C36_Witness ==
    /\ last.op = "AddLogCreators" /\ ~last.panic /\ ~last.blocked
    /\ BatchSinks(last.batch) # {}
    /\ logLevel = INFO /\ defaultCreator # Nil
    /\ currentLogCreator # Nil
    /\ \A i \in BatchSinks(last.batch) : last.batch[i] # currentLogCreator

\* C37: a level that is NONE or none of the seven defined levels is accepted
\* under no threshold, by the function and by the method alike, and a log
\* call with such a level returns false without writing to a creator and
\* without asking one whether it is ready.
NeverAccepted == {NONE, InvalidLevel}

C37_NoneNeverAccepted ==
    /\ \A T \in LevelInputs, L \in NeverAccepted :
          /\ ~IsLogLevelAcceptable(T, L)
          /\ ~LogLevel_IsLogLevelAcceptable(T, L)
    /\ (IsLogCall /\ last.level \in NeverAccepted)
          => /\ ~last.ret
             /\ ~last.panic
             /\ last.writes = <<>>
             /\ last.ready = <<>>

\* A log call with level NONE under the most permissive threshold, with an
\* active creator and a fallback.
C37_Witness ==
    /\ IsLogCall /\ last.level = NONE /\ ~last.ret
    /\ logLevel = TRACE
    /\ currentLogCreator # Nil /\ defaultCreator # Nil

\* C29: after any sequence of completed calls and requests, those answered
\* 404 on an empty registry and those answered 400 included, no read lock
\* and no write lock of changeMutex is held, and an AddLogCreators call
\* takes the write lock and completes.
C29_NoLockLeftHeld ==
    ~crashed =>
        /\ rlock = 0
        /\ ~wlock
        /\ ~last.blocked

----------------------------------------------------------------------------
(* Properties of calls made at the same time *)

\* The locks a goroutine holds at its next step, and the fields that step
\* reads or writes.
HoldsWriteLock(p) == pc[p] = "AddStore"

HoldsReadLock(p) ==
    pc[p] \in {"ChangeLookup", "ChangeAssign", "ChangeRUnlock", "GetRead", "GetRUnlock",
               "ListRange", "ListRUnlock"}

WritesMapping(p) == InAddLoop(p)

WritesActive(p) == pc[p] = "ChangeAssign"

ReadsActive(p) ==
    pc[p] \in {"AddTest", "LogReady", "LogWrite", "LogReady2", "ReadLogCreator",
               "GetRead"}

ReadsThreshold(p) == pc[p] \in {"LogAccept", "LogAccept2", "ReadLogLevel"}

\* The mutex as the steps keep it: the write lock excludes every read lock,
\* and the read locks held are those of the goroutines inside ChangeLogCreator.
MutexConsistent ==
    /\ wlock => rlock = 0
    /\ wlock <=> \E p \in Procs : HoldsWriteLock(p)
    /\ rlock = Cardinality({p \in Procs : HoldsReadLock(p)})
    /\ Cardinality({p \in Procs : HoldsWriteLock(p)}) <= 1

UpdatesUnderWriteLock ==
    \A p \in Procs : (WritesMapping(p) \/ WritesActive(p)) => HoldsWriteLock(p)

ReadsUnderReadLock ==
    \A p \in Procs : (ReadsActive(p) \/ ReadsThreshold(p)) => HoldsReadLock(p)

\* No two goroutines are about to write currentLogCreator, and none is about
\* to read it while another is about to write it.
ActiveRaceFree ==
    \A p, q \in Procs :
        p # q => ~(WritesActive(p) /\ (WritesActive(q) \/ ReadsActive(q)))

\* C20: AddLogCreators and ChangeLogCreator hold the write lock while they
\* update the mapping or the active creator; LogIt, the query of the active
\* creator and the reads of the threshold hold the read lock while they
\* read; so no two calls write the active creator at the same time and no
\* call reads it while another writes it.
C20_ActiveGuardedByMutex ==
    /\ UpdatesUnderWriteLock
    /\ ReadsUnderReadLock
    /\ ActiveRaceFree

\* The answers IsReady() may give in a call that gave the answers rd so far.
Answers(rd) ==
    {r \in BOOLEAN \X BOOLEAN :
        /\ Len(rd) >= 1 => r[1] = rd[1]
        /\ Len(rd) >= 2 => r[2] = rd[2]}

\* The branches LogIt takes under threshold thr with the arguments and the
\* answers of the call of goroutine p, an active creator being present.
OutcomesUnder(thr, p) ==
    {LogItTarget(thr, 1, defaultCreator, r[1], r[2], loc[p].level) :
        r \in Answers(loc[p].ready)}

\* C21: a LogIt call during which at most one SetLogLevel changed the
\* threshold, from Told to Tnew, is filtered by Told or by Tnew: the branch
\* it took (none, active creator, default creator) is one LogIt takes under
\* one of the two thresholds.
C21_FilteredByOldOrNew ==
    \A p \in Procs :
        (/\ pc[p] = "LogReturn"
         /\ loc[p].seen \subseteq DefinedLevels
         /\ Cardinality(loc[p].seen) <= 2)
            => loc[p].out \in UNION {OutcomesUnder(thr, p) : thr \in loc[p].seen}

\* C30: a ChangeLogCreator at the same time does not take effect in the
\* middle of a LogIt call: the active creator LogIt writes to is the one
\* whose IsReady() it called.
C30_WritesToCheckedCreator ==
    \A p \in Procs :
        (pc[p] = "LogReturn" /\ loc[p].out = "active") => loc[p].wrote = loc[p].asked

\* C31: whenever a call that reads the registry is about to read it (a
\* log call, the query of the active creator, a GetCurrentLogCreator request
\* holding the read lock), a non-empty logCreatorList comes with an active
\* creator: the insertion of AddLogCreators and its selection of the first
\* active creator are one step for every other caller.
ObservesRegistry(p) ==
    pc[p] \in {"GetRead", "ReadLogCreator", "LogReady", "LogWrite", "LogReady2"}

C31_RegisterAppearsAtomic ==
    \A p \in Procs :
        (ObservesRegistry(p) /\ DOMAIN logCreatorList # {}) => currentLogCreator # Nil

\* C32: the selection made by AddLogCreators (its call of ChangeLogCreator,
\* recognised by the batch the goroutine still carries) assigns
\* currentLogCreator only when no creator is active at that moment: a
\* creator selected by another AddLogCreators or by ChangeLogCreator is never
\* replaced by it.
SelectsFirst(p) ==
    pc[p] = "ChangeAssign" /\ loc[p].batch # <<>> /\ pc'[p] = "ChangeRUnlock"

C32_RegisterKeepsSelected ==
    [][\A p \in Procs :
           (SelectsFirst(p) /\ currentLogCreator # Nil)
               => currentLogCreator' = currentLogCreator]_vars

\* C33: no goroutine that is about to look a name up in logCreatorList
\* (ChangeLogCreator, GetCurrentLogCreator) or is iterating over it
\* (Shutdown, GetLogCreatorList) does so while another is inside the loop of
\* AddLogCreators that assigns to its entries.
ReadsMapping(p) ==
    pc[p] \in {"ChangeLookup", "ChangeAssign", "GetRead", "ListRange",
               "ShutRange", "ShutNext"}

C33_MappingReadsExcludeWrites ==
    \A p, q \in Procs : ~(ReadsMapping(p) /\ InAddLoop(q))

====
